---- MODULE Spec2Model ----
(***************************************************************************)
(* A model of the Pixwell client (src/src/types.ts): construction, the     *)
(* three public operations (screenshot, batch, usage), the private request *)
(* executor with its per-call AbortController and timeout timer, and the   *)
(* error classifier handleError.                                           *)
(*                                                                         *)
(* One call of a public operation runs in three steps of the event loop:   *)
(*   - the synchronous prefix up to `await fetch(...)`                     *)
(*   - the continuation after fetch settles (resolve, reject, abort)       *)
(*   - the continuation after the body has been read                       *)
(* Between those steps timers and other calls may run.                     *)
(***************************************************************************)
EXTENDS Integers, Sequences, FiniteSets, TLC

(***************************************************************************)
(* Bounds of the model.                                                    *)
(***************************************************************************)
NumCalls == 2        \* calls issued concurrently on one client (ConcSpec)
MaxHeaderLen == 2    \* longest header value, in characters
MaxBytes == 1        \* largest binary payload, in bytes

(***************************************************************************)
(* JavaScript values.                                                      *)
(***************************************************************************)
\* a JS number, NaN, or undefined, as one record shape
Num(n) == [t |-> "number", v |-> n]
NaN == [t |-> "NaN", v |-> 0]
Undef == [t |-> "undefined", v |-> 0]

\* Headers.get(name): null when the header is absent, else its string value,
\* a sequence of characters
NoHeader == [present |-> FALSE, chars |-> <<>>]
Header(s) == [present |-> TRUE, chars |-> s]

Chars == {"0", "3", "x", "-"}
Digits == {"0", "3"}

DigitVal(ch) == IF ch = "3" THEN 3 ELSE 0

RECURSIVE SeqsUpTo(_)
SeqsUpTo(n) ==
    IF n = 0 THEN {<<>>}
    ELSE LET shorter == SeqsUpTo(n - 1)
         IN  shorter \cup {Append(s, ch) : s \in shorter, ch \in Chars}

HeaderValues == {NoHeader} \cup {Header(s) : s \in SeqsUpTo(MaxHeaderLen)}

\* the header values of the concurrent specification: absent, "30"
SmallHeaderValues == {NoHeader, Header(<<"3", "0">>)}

(***************************************************************************)
(* parseInt(string, 10): an optional sign, then the longest prefix of      *)
(* decimal digits; NaN when there is no digit.  (Headers.get strips        *)
(* surrounding whitespace, so no value here starts with whitespace.)       *)
(***************************************************************************)
RECURSIVE ParseDigits(_, _, _)
ParseDigits(s, i, acc) ==
    IF i > Len(s) \/ s[i] \notin Digits THEN acc
    ELSE ParseDigits(s, i + 1, acc * 10 + DigitVal(s[i]))

parseInt(s) ==
    LET neg == Len(s) > 0 /\ s[1] = "-"
        start == IF neg THEN 2 ELSE 1
    IN  IF start > Len(s) \/ s[start] \notin Digits THEN NaN
        ELSE IF neg THEN Num(0 - ParseDigits(s, start, 0))
        ELSE Num(ParseDigits(s, start, 0))

(***************************************************************************)
(* The error classes (src/src/types.ts:129-200).  `name` is the class of   *)
(* the thrown value; TypeError, SyntaxError and AbortError are the         *)
(* platform's errors, which are not instances of PixwellError.             *)
(***************************************************************************)
Msg(m, n) == [m |-> m, n |-> n]

Err(name, message, code, statusCode, retryAfter, field) ==
    [kind |-> "error", name |-> name, message |-> message, code |-> code,
     statusCode |-> statusCode, retryAfter |-> retryAfter, field |-> field]

PixwellError(message, code, statusCode) ==
    Err("PixwellError", message, code, statusCode, Undef, "undefined")

AuthenticationError(message) ==
    Err("AuthenticationError", message, "AUTHENTICATION_ERROR", Num(401), Undef, "undefined")

RateLimitError(message, retryAfter) ==
    Err("RateLimitError", message, "RATE_LIMIT_ERROR", Num(429), retryAfter, "undefined")

ValidationError(message, field) ==
    Err("ValidationError", message, "VALIDATION_ERROR", Num(400), Undef, field)

CaptureError(message) ==
    Err("CaptureError", message, "CAPTURE_ERROR", Num(500), Undef, "undefined")

NetworkError(message) ==
    Err("NetworkError", message, "NETWORK_ERROR", Undef, Undef, "undefined")

\* an error of the platform: new TypeError(...), SyntaxError, DOMException
PlatformError(name, message) ==
    Err(name, message, "undefined", Undef, Undef, "undefined")

\* a thrown value that is not an Error object at all
NonError == Err("<not an Error>", Msg("none", 0), "undefined", Undef, Undef, "undefined")

PixwellErrorNames ==
    {"PixwellError", "AuthenticationError", "RateLimitError", "ValidationError",
     "CaptureError", "NetworkError"}

\* error instanceof PixwellError
InstanceOfPixwellError(e) == e.name \in PixwellErrorNames

\* error instanceof Error
InstanceOfError(e) == e.name # "<not an Error>"

\* a call that has not completed yet has no outcome
NoOutcome == [kind |-> "none"]

(***************************************************************************)
(* Client configuration (PixwellClientOptions, src/src/types.ts:117-124).  *)
(* An optional field is [present, v]; a URL is a sequence of pieces, "/"   *)
(* being a piece of its own so that the trailing slash can be stripped.    *)
(***************************************************************************)
DEFAULT_BASE_URL == <<"https://api.pixwell.dev">>
DEFAULT_TIMEOUT == 60000

Present(v) == [present |-> TRUE, v |-> v]
AbsentUrl == [present |-> FALSE, v |-> <<>>]
AbsentNumber == [present |-> FALSE, v |-> 0]

\* apiKey: undefined (missing), "" (empty) or a key
ApiKeys == {"undefined", "", "sk_1", "sk_2"}
BaseUrls == {AbsentUrl, Present(<<"http://h">>), Present(<<"http://h", "/">>)}
Timeouts == {AbsentNumber, Present(50)}

ClientOptions == [apiKey : ApiKeys, baseUrl : BaseUrls, timeout : Timeouts]
SmallClientOptions ==
    [apiKey : {"", "sk_1"}, baseUrl : {Present(<<"http://h", "/">>)}, timeout : {Present(50)}]

\* the client before construction has no fields
NoConfig == [apiKey |-> "undefined", baseUrl |-> <<>>, timeout |-> 0]

\* a ?? b
Nullish(opt, default) == IF opt.present THEN opt.v ELSE default

\* s.replace(/\/$/, "")
StripTrailingSlash(s) ==
    IF Len(s) > 0 /\ s[Len(s)] = "/" THEN SubSeq(s, 1, Len(s) - 1) ELSE s

\* the guard of the constructor accepts the empty string: a plausible slip
ApiKeyMissingOnlyUndefined(apiKey) == apiKey = "undefined"

\* !options.apiKey
ApiKeyMissing(apiKey) == apiKey = "undefined" \/ apiKey = ""

ConfigOf(options) ==
    [apiKey |-> options.apiKey,
     baseUrl |-> StripTrailingSlash(Nullish(options.baseUrl, DEFAULT_BASE_URL)),
     timeout |-> Nullish(options.timeout, DEFAULT_TIMEOUT)]

(***************************************************************************)
(* Responses.  fetch resolves when the status line and the headers have    *)
(* arrived; the body is read later by response.json() or arrayBuffer().    *)
(***************************************************************************)
Statuses == {200, 400, 401, 404, 429, 500, 502, 503, 504}
SmallStatuses == {200, 429, 503}

\* response.ok
Ok(status) == status >= 200 /\ status <= 299

ContentTypes == {"null", "image/png"}
CacheValues == {"null", "HIT", "MISS"}

Response(status, retryAfter, duration, contentType, cache) ==
    [status |-> status,
     headers |-> [retryAfter |-> retryAfter, xDurationMs |-> duration,
                  contentType |-> contentType, xCache |-> cache]]

NoResponse == Response(0, NoHeader, NoHeader, "null", "null")

\* The remote service: retry-after accompanies a 429, the capture headers a
\* success.  (The client reads retry-after only on a 429, and the capture
\* headers only on a success.)
ResponsesOver(statuses, values) ==
    {Response(st, ra, NoHeader, "null", "null") :
        st \in {x \in statuses : x = 429}, ra \in values}
    \cup {Response(st, NoHeader, NoHeader, "null", "null") :
        st \in {x \in statuses : ~Ok(x) /\ x # 429}}
    \cup {Response(st, NoHeader, d, ct, xc) :
        st \in {x \in statuses : Ok(x)}, d \in values,
        ct \in ContentTypes, xc \in CacheValues}

Responses == ResponsesOver(Statuses, HeaderValues)
SmallResponses ==
    {r \in ResponsesOver(SmallStatuses, SmallHeaderValues) :
        Ok(r.status) => r.headers.contentType = "image/png" /\ r.headers.xCache = "HIT"}

(***************************************************************************)
(* Bodies.  An error body is what response.json() yields in handleError:   *)
(* a rejection (the body is not JSON), null, another non-object JSON value *)
(* (number, string, boolean), or an object whose `error` member is absent, *)
(* null, or an object with optional code and message.                      *)
(***************************************************************************)
NoErrorMember == [kind |-> "absent", code |-> "undefined", message |-> "undefined"]
NullErrorMember == [kind |-> "null", code |-> "undefined", message |-> "undefined"]
ErrorMembers ==
    {NoErrorMember, NullErrorMember}
    \cup [kind : {"object"}, code : {"undefined", "QUOTA"}, message : {"undefined", "boom"}]

JsonBody(kind, error) == [kind |-> kind, error |-> error]

ErrorBodies ==
    {JsonBody(k, NoErrorMember) : k \in {"notjson", "null", "primitive"}}
    \cup {JsonBody("object", e) : e \in ErrorMembers}

SmallErrorBodies ==
    {JsonBody("notjson", NoErrorMember), JsonBody("null", NoErrorMember),
     JsonBody("object", [kind |-> "object", code |-> "QUOTA", message |-> "boom"])}

\* A success body: bytes of some length, a JSON document, text that is not
\* JSON, or a stream that breaks while it is read.
SuccessBody(kind, size, doc) == [kind |-> kind, size |-> size, doc |-> doc]

SuccessBodies ==
    {SuccessBody("data", n, d) : n \in 0..MaxBytes, d \in {"docA", "docB"}}
    \cup {SuccessBody("notjson", n, "none") : n \in 0..MaxBytes}
    \cup {SuccessBody("broken", 0, "none")}

SmallSuccessBodies ==
    {SuccessBody("data", 1, "docA"), SuccessBody("notjson", 1, "none")}

\* no body has been read yet
NoBody == SuccessBody("none", 0, "none")

(***************************************************************************)
(* Pixwell.handleError (src/src/types.ts:420-452): the value it throws for *)
(* a response and for what response.json() yielded.                        *)
(***************************************************************************)
\* errorData after the try/catch around response.json(): {} when it rejects
ErrorData(body) ==
    IF body.kind = "notjson" THEN JsonBody("object", NoErrorMember) ELSE body

\* errorData.error, for an errorData that is not null: a non-object JSON
\* value has no such property
ErrorMemberOf(errorData) ==
    IF errorData.kind = "object" THEN errorData.error ELSE NoErrorMember

\* errorData.error?.message ?? `Request failed with status ${status}`
MessageOf(error, status) ==
    IF error.kind = "object" /\ error.message # "undefined"
    THEN Msg(error.message, 0)
    ELSE Msg("Request failed with status", status)

\* errorData.error?.code ?? "UNKNOWN_ERROR"
CodeOf(error) ==
    IF error.kind = "object" /\ error.code # "undefined"
    THEN error.code
    ELSE "UNKNOWN_ERROR"

\* retryAfter ? parseInt(retryAfter, 10) : undefined  (null and "" are falsy)
RetryAfterOf(header) ==
    IF header.present /\ header.chars # <<>> THEN parseInt(header.chars) ELSE Undef

handleError(response, body) ==
    LET errorData == ErrorData(body)
    IN  IF errorData.kind = "null"
        THEN \* errorData.error on null
             PlatformError("TypeError", Msg("Cannot read properties of null", 0))
        ELSE LET error == ErrorMemberOf(errorData)
                 message == MessageOf(error, response.status)
                 code == CodeOf(error)
             IN  CASE response.status = 401 -> AuthenticationError(message)
                   [] response.status = 429 ->
                        RateLimitError(message, RetryAfterOf(response.headers.retryAfter))
                   [] response.status = 400 -> ValidationError(message, "undefined")
                   [] response.status \in {500, 502, 503} -> CaptureError(message)
                   [] OTHER -> PixwellError(message, code, Num(response.status))

(***************************************************************************)
(* The catch block of Pixwell.request (src/src/types.ts:399-414): the      *)
(* error the public operation raises for a value thrown inside the try.    *)
(***************************************************************************)
TimedOut(timeout) == Msg("Request timed out after ms", timeout)

\* a catch block without the instanceof PixwellError test
RequestCatchRewraps(error, timeout) ==
    IF InstanceOfError(error)
    THEN IF error.name = "AbortError" THEN NetworkError(TimedOut(timeout))
         ELSE NetworkError(error.message)
    ELSE NetworkError(Msg("Unknown error occurred", 0))

\* a catch block without the AbortError test
RequestCatchNoAbortTest(error, timeout) ==
    IF InstanceOfPixwellError(error) THEN error
    ELSE IF InstanceOfError(error) THEN NetworkError(error.message)
    ELSE NetworkError(Msg("Unknown error occurred", 0))

RequestCatch(error, timeout) ==
    IF InstanceOfPixwellError(error) THEN error
    ELSE IF InstanceOfError(error)
    THEN IF error.name = "AbortError" THEN NetworkError(TimedOut(timeout))
         ELSE NetworkError(error.message)
    ELSE NetworkError(Msg("Unknown error occurred", 0))

\* the rejections of the platform
AbortError == PlatformError("AbortError", Msg("This operation was aborted", 0))
FetchFailures == {PlatformError("TypeError", Msg("fetch failed", 0))}
BodySyntaxError == PlatformError("SyntaxError", Msg("Unexpected token", 0))
BodyStreamError == PlatformError("TypeError", Msg("terminated", 0))

(***************************************************************************)
(* The timer of a call: "none" before setTimeout, then "pending", then     *)
(* "fired" (its callback ran) or "cleared" (clearTimeout while pending).   *)
(***************************************************************************)
clearTimeout(t) == IF t = "pending" THEN "cleared" ELSE t

\* a request that forgets line 385
TimerAfterResponseKept(t) == t

\* clearTimeout(timeoutId) after fetch resolved, line 385
TimerAfterResponse(t) == clearTimeout(t)

\* a catch block that forgets line 400
TimerAfterCatchKept(t) == t

\* clearTimeout(timeoutId) in the catch block, line 400
TimerAfterCatch(t) == clearTimeout(t)

(***************************************************************************)
(* The public operations: what each passes to request, and what each makes *)
(* of the value request returns.                                           *)
(***************************************************************************)
Ops == {"screenshot", "batch", "usage"}

PathOf(op) ==
    CASE op = "screenshot" -> "/api/v1/screenshot"
      [] op = "batch" -> "/api/v1/batch"
      [] op = "usage" -> "/api/v1/usage"

MethodOf(op) == IF op = "usage" THEN "GET" ELSE "POST"

\* options.body: JSON.stringify(options), or undefined for usage
RequestBodyOf(op) == IF op = "usage" THEN "undefined" ELSE "JSON.stringify(options)"

ResponseTypeOf(op) == IF op = "screenshot" THEN "arrayBuffer" ELSE "json"

\* the init object handed to fetch, lines 374-383
FetchInit(cfg, op) ==
    [url |-> cfg.baseUrl \o <<PathOf(op)>>,
     method |-> MethodOf(op),
     headers |-> [h \in {"Authorization", "Content-Type", "User-Agent"} |->
                    CASE h = "Authorization" -> <<"Bearer", cfg.apiKey>>
                      [] h = "Content-Type" -> <<"application/json">>
                      [] h = "User-Agent" -> <<"pixwell-js/1.0.0">>],
     body |-> RequestBodyOf(op)]

NoRequest ==
    [url |-> <<>>, method |-> "none", headers |-> [h \in {} |-> <<>>], body |-> "undefined"]

\* parseInt(response.headers.get("x-duration-ms") ?? "0", 10)
DurationOf(header) ==
    IF header.present THEN parseInt(header.chars) ELSE parseInt(<<"0">>)

\* the ScreenshotResponse built at lines 290-300
ScreenshotResult(data, headers) ==
    [kind |-> "result", op |-> "screenshot", data |-> data.doc,
     contentType |-> IF headers.contentType = "null" THEN "application/octet-stream"
                     ELSE headers.contentType,
     size |-> data.size,
     durationMs |-> DurationOf(headers.xDurationMs),
     cached |-> headers.xCache = "HIT"]

\* batch and usage return response.data as it is
JsonResult(op, data) == [kind |-> "result", op |-> op, data |-> data.doc]

\* response.arrayBuffer() / response.json() at lines 392-396: the value read,
\* or the error thrown
ReadThrows(responseType, body) ==
    \/ body.kind = "broken"
    \/ responseType = "json" /\ body.kind = "notjson"

ReadError(body) == IF body.kind = "broken" THEN BodyStreamError ELSE BodySyntaxError

OperationResult(op, body, headers) ==
    IF op = "screenshot" THEN ScreenshotResult(body, headers) ELSE JsonResult(op, body)

(***************************************************************************)
(* State.                                                                  *)
(***************************************************************************)
VARIABLES
    clientState,  \* "none", "constructed", or "threw" (the constructor threw)
    options,      \* the options the constructor was called with
    ctorError,    \* what the constructor threw
    config,       \* this.apiKey, this.baseUrl, this.timeout
    fetchCount,   \* HTTP calls issued so far
    pc,           \* per call: "idle", "fetching", "handleError", "reading", "done"
    op,           \* per call: the public operation invoked
    sent,         \* per call: the init object handed to fetch
    timer,        \* per call: the state of timeoutId
    aborted,      \* per call: controller.signal.aborted
    resp,         \* per call: the response fetch resolved with
    body,         \* per call: what reading the body yielded
    raised,       \* per call: what handleError threw
    outcome       \* per call: the result returned or the error raised

vars == <<clientState, options, ctorError, config, fetchCount, pc, op, sent,
          timer, aborted, resp, body, raised, outcome>>

clientVars == <<clientState, options, ctorError, config>>

Calls == DOMAIN pc

NoOptions == [apiKey |-> "undefined", baseUrl |-> AbsentUrl, timeout |-> AbsentNumber]

InitOver(calls) ==
    /\ clientState = "none"
    /\ options = NoOptions
    /\ ctorError = NoOutcome
    /\ config = NoConfig
    /\ fetchCount = 0
    /\ pc = [c \in calls |-> "idle"]
    /\ op = [c \in calls |-> "none"]
    /\ sent = [c \in calls |-> NoRequest]
    /\ timer = [c \in calls |-> "none"]
    /\ aborted = [c \in calls |-> FALSE]
    /\ resp = [c \in calls |-> NoResponse]
    /\ body = [c \in calls |-> NoBody]
    /\ raised = [c \in calls |-> NoOutcome]
    /\ outcome = [c \in calls |-> NoOutcome]

(***************************************************************************)
(* new Pixwell(options), src/src/types.ts:249-257.                         *)
(***************************************************************************)
Construct(o) ==
    /\ clientState = "none"
    /\ options' = o
    /\ IF ApiKeyMissing(o.apiKey)
       THEN /\ clientState' = "threw"
            /\ ctorError' = ValidationError(Msg("API key is required", 0), "apiKey")
            /\ config' = config
       ELSE /\ clientState' = "constructed"
            /\ ctorError' = ctorError
            /\ config' = ConfigOf(o)
    /\ UNCHANGED <<fetchCount, pc, op, sent, timer, aborted, resp, body, raised, outcome>>

(***************************************************************************)
(* A public operation up to `await fetch(...)`: request builds the URL,    *)
(* makes a controller, starts the timer and calls fetch (lines 369-383).   *)
(* Only a constructed client has operations to invoke.                     *)
(***************************************************************************)
Request(c, o) ==
    /\ clientState = "constructed"
    /\ pc[c] = "idle"
    /\ op' = [op EXCEPT ![c] = o]
    /\ aborted' = [aborted EXCEPT ![c] = FALSE]
    /\ timer' = [timer EXCEPT ![c] = "pending"]
    /\ sent' = [sent EXCEPT ![c] = FetchInit(config, o)]
    /\ fetchCount' = fetchCount + 1
    /\ pc' = [pc EXCEPT ![c] = "fetching"]
    /\ UNCHANGED <<clientVars, resp, body, raised, outcome>>

Screenshot(c) == Request(c, "screenshot")
Batch(c) == Request(c, "batch")
Usage(c) == Request(c, "usage")

\* one controller kept on the client and shared by its calls
ControllerAbortShared(ab, c) == [d \in DOMAIN ab |-> TRUE]

\* controller.abort() on the controller of call c (lines 370-371)
ControllerAbort(ab, c) == [ab EXCEPT ![c] = TRUE]

\* the callback of setTimeout, line 371
TimerFire(c) ==
    /\ timer[c] = "pending"
    /\ timer' = [timer EXCEPT ![c] = "fired"]
    /\ aborted' = ControllerAbort(aborted, c)
    /\ UNCHANGED <<clientVars, fetchCount, pc, op, sent, resp, body, raised, outcome>>

\* the catch block, entered from a step of call c with the thrown value e
Catch(c, e) ==
    /\ timer' = [timer EXCEPT ![c] = TimerAfterCatch(timer[c])]
    /\ outcome' = [outcome EXCEPT ![c] = RequestCatch(e, config.timeout)]
    /\ pc' = [pc EXCEPT ![c] = "done"]

\* fetch rejects because its signal was aborted
FetchAborted(c) ==
    /\ pc[c] = "fetching"
    /\ aborted[c]
    /\ Catch(c, AbortError)
    /\ UNCHANGED <<clientVars, fetchCount, op, sent, aborted, resp, body, raised>>

\* fetch rejects for a failure of the network
FetchReject(c, e) ==
    /\ pc[c] = "fetching"
    /\ ~aborted[c]
    /\ Catch(c, e)
    /\ UNCHANGED <<clientVars, fetchCount, op, sent, aborted, resp, body, raised>>

\* fetch resolves with a response: lines 385-396 up to the next await
FetchResolve(c, r) ==
    /\ pc[c] = "fetching"
    /\ ~aborted[c]
    /\ resp' = [resp EXCEPT ![c] = r]
    /\ timer' = [timer EXCEPT ![c] = TimerAfterResponse(timer[c])]
    /\ pc' = [pc EXCEPT ![c] = IF Ok(r.status) THEN "reading" ELSE "handleError"]
    /\ UNCHANGED <<clientVars, fetchCount, op, sent, aborted, body, raised, outcome>>

\* response.json() settles inside handleError: lines 424-451, then the catch
\* block of request
HandleErrorBody(c, b) ==
    /\ pc[c] = "handleError"
    /\ body' = [body EXCEPT ![c] = b]
    /\ raised' = [raised EXCEPT ![c] = handleError(resp[c], b)]
    /\ Catch(c, handleError(resp[c], b))
    /\ UNCHANGED <<clientVars, fetchCount, op, sent, aborted, resp>>

\* response.arrayBuffer() or response.json() settles: lines 392-398, then the
\* rest of the public operation, or the catch block
ReadBody(c, b) ==
    /\ pc[c] = "reading"
    /\ body' = [body EXCEPT ![c] = b]
    /\ IF ReadThrows(ResponseTypeOf(op[c]), b)
       THEN Catch(c, ReadError(b))
       ELSE /\ outcome' = [outcome EXCEPT ![c] = OperationResult(op[c], b, resp[c].headers)]
            /\ pc' = [pc EXCEPT ![c] = "done"]
            /\ timer' = timer
    /\ UNCHANGED <<clientVars, fetchCount, op, sent, aborted, resp, raised>>

(***************************************************************************)
(* Specifications.  Spec: one call, with every response, header value and  *)
(* body of the bounded sets.  ConcSpec: NumCalls calls in flight at once,  *)
(* with a few inputs of each kind.  LiveSpec: Spec, and the event loop     *)
(* runs the reaction of a rejected fetch.                                  *)
(***************************************************************************)
\* the calls of each specification
OneCall == {1}
ManyCalls == 1..NumCalls

Init == InitOver(OneCall)

Next ==
    \/ \E o \in ClientOptions : Construct(o)
    \/ \E c \in OneCall :
        \/ Screenshot(c)
        \/ Batch(c)
        \/ Usage(c)
        \/ TimerFire(c)
        \/ FetchAborted(c)
        \/ \E e \in FetchFailures : FetchReject(c, e)
        \/ \E r \in Responses : FetchResolve(c, r)
        \/ \E b \in ErrorBodies : HandleErrorBody(c, b)
        \/ \E b \in SuccessBodies : ReadBody(c, b)

Spec == Init /\ [][Next]_vars

LiveSpec == Init /\ [][Next]_vars /\ WF_vars(\E c \in OneCall : FetchAborted(c))

ConcInit == InitOver(ManyCalls)

ConcNext ==
    \/ \E o \in SmallClientOptions : Construct(o)
    \/ \E c \in ManyCalls :
        \/ Screenshot(c)
        \/ Batch(c)
        \/ Usage(c)
        \/ TimerFire(c)
        \/ FetchAborted(c)
        \/ \E e \in FetchFailures : FetchReject(c, e)
        \/ \E r \in SmallResponses : FetchResolve(c, r)
        \/ \E b \in SmallErrorBodies : HandleErrorBody(c, b)
        \/ \E b \in SmallSuccessBodies : ReadBody(c, b)

ConcSpec == ConcInit /\ [][ConcNext]_vars

(***************************************************************************)
(* What the claims speak of.                                               *)
(***************************************************************************)
\* a call that received a non-2xx response and has completed
FailedWithStatus(c) == pc[c] = "done" /\ resp[c].status # 0 /\ ~Ok(resp[c].status)

\* the error class the status table gives a non-2xx status
ClassOfStatus(status) ==
    CASE status = 401 -> "AuthenticationError"
      [] status = 429 -> "RateLimitError"
      [] status = 400 -> "ValidationError"
      [] status \in {500, 502, 503} -> "CaptureError"
      [] OTHER -> "PixwellError"

\* the code an error body carries, "UNKNOWN_ERROR" when it carries none
DecodedCode(b) ==
    IF b.kind = "object" /\ b.error.kind = "object" /\ b.error.code # "undefined"
    THEN b.error.code
    ELSE "UNKNOWN_ERROR"

\* a header value that is a decimal number: digits only, at least one
IsNumeric(s) == Len(s) > 0 /\ \A i \in 1..Len(s) : s[i] \in Digits

\* the number a numeric header value denotes
RECURSIVE DecimalValue(_)
DecimalValue(s) ==
    IF s = <<>> THEN 0
    ELSE 10 * DecimalValue(SubSeq(s, 1, Len(s) - 1)) + DigitVal(s[Len(s)])

\* everything of call c a step can change
CallState(c) ==
    <<pc[c], op[c], sent[c], timer[c], aborted[c], resp[c], body[c], raised[c], outcome[c]>>

(***************************************************************************)
(* C1.  A non-2xx response makes the operation raise, never return, and    *)
(* the class of the error is fixed by the status alone, whatever the body: *)
(* 401 AuthenticationError, 429 RateLimitError, 400 ValidationError,       *)
(* 500/502/503 CaptureError, any other status the base PixwellError with   *)
(* the decoded code (default "UNKNOWN_ERROR") and the numeric status.      *)
(* The code breaks this for the JSON body `null`.                         *)
(***************************************************************************)
C1_ErrorClassFixedByStatus ==
    \A c \in Calls :
        FailedWithStatus(c) =>
            /\ outcome[c].kind = "error"
            /\ outcome[c].name = ClassOfStatus(resp[c].status)
            /\ outcome[c].name = "PixwellError" =>
                   /\ outcome[c].code = DecodedCode(body[c])
                   /\ outcome[c].statusCode = Num(resp[c].status)

(***************************************************************************)
(* C2.  On a 429 the RateLimitError's retryAfter is the number in the      *)
(* retry-after header when the header is present and numeric, and          *)
(* undefined otherwise (absent, empty, not numeric).  The code yields NaN  *)
(* for a header that does not start with a digit.                          *)
(***************************************************************************)
C2_RetryAfterNumericOrUndefined ==
    \A c \in Calls :
        (pc[c] = "done" /\ resp[c].status = 429 /\ outcome[c].name = "RateLimitError") =>
            LET h == resp[c].headers.retryAfter
            IN  outcome[c].retryAfter =
                    IF h.present /\ IsNumeric(h.chars) THEN Num(DecimalValue(h.chars))
                    ELSE Undef

(***************************************************************************)
(* C3.  Once the timer of a call has fired (the transport had delivered no *)
(* response), the call never ends with a result and eventually ends by     *)
(* raising a NetworkError, code NETWORK_ERROR, no status code, whose       *)
(* message names the configured timeout.                                   *)
(***************************************************************************)
TimeoutError(c) ==
    /\ pc[c] = "done"
    /\ outcome[c].kind = "error"
    /\ outcome[c].name = "NetworkError"
    /\ outcome[c].code = "NETWORK_ERROR"
    /\ outcome[c].statusCode = Undef
    /\ outcome[c].message = Msg("Request timed out after ms",
                                Nullish(options.timeout, DEFAULT_TIMEOUT))

C3_TimeoutRaisesNetworkError ==
    \A c \in OneCall :
        /\ [](timer[c] = "fired" => (pc[c] = "fetching" /\ aborted[c]) \/ TimeoutError(c))
        /\ (timer[c] = "fired") ~> TimeoutError(c)

C3_Witness == \E c \in Calls : timer[c] = "fired" /\ TimeoutError(c)

(***************************************************************************)
(* C4.  Constructing with a missing or empty apiKey raises a               *)
(* ValidationError, with no HTTP call issued and no client on which an     *)
(* operation could be invoked; with a non-empty apiKey construction        *)
(* succeeds, and issues no HTTP call itself.                               *)
(***************************************************************************)
C4_ConstructorValidatesApiKey ==
    clientState # "none" =>
        IF options.apiKey \in {"undefined", ""}
        THEN /\ clientState = "threw"
             /\ ctorError.kind = "error"
             /\ ctorError.name = "ValidationError"
             /\ fetchCount = 0
             /\ \A c \in Calls : pc[c] = "idle" /\ sent[c] = NoRequest
        ELSE /\ clientState = "constructed"
             /\ ctorError = NoOutcome
             /\ config.apiKey = options.apiKey
             /\ (\A c \in Calls : pc[c] = "idle") => fetchCount = 0

C4_Witness == clientState = "threw" /\ options.apiKey = "" /\ fetchCount = 0

(***************************************************************************)
(* C5.  A successful capture's durationMs is the number in x-duration-ms   *)
(* when the header is present and numeric, and 0 when it is absent or not  *)
(* numeric.  The code yields NaN for a header that does not start with a   *)
(* digit.                                                                  *)
(***************************************************************************)
C5_DurationNumericOrZero ==
    \A c \in Calls :
        (pc[c] = "done" /\ op[c] = "screenshot" /\ outcome[c].kind = "result") =>
            LET h == resp[c].headers.xDurationMs
            IN  outcome[c].durationMs =
                    IF h.present /\ IsNumeric(h.chars) THEN Num(DecimalValue(h.chars))
                    ELSE Num(0)

(***************************************************************************)
(* C6.  Content-Type: application/json is sent only on calls that carry a  *)
(* JSON body; every call carries Authorization: Bearer <credential> and    *)
(* the client identifier.  The code sends Content-Type on the bodiless GET *)
(* of usage as well.                                                       *)
(***************************************************************************)
C6_ContentTypeOnlyWithBody ==
    \A c \in Calls :
        sent[c].method # "none" =>
            /\ ("Content-Type" \in DOMAIN sent[c].headers) <=> (sent[c].body # "undefined")
            /\ "Authorization" \in DOMAIN sent[c].headers
            /\ sent[c].headers["Authorization"] = <<"Bearer", config.apiKey>>
            /\ "User-Agent" \in DOMAIN sent[c].headers

(***************************************************************************)
(* C7.  When a call has returned or raised, its timer has fired or has     *)
(* been cleared: no timer outlives its call.                               *)
(***************************************************************************)
C7_NoTimerOutlivesCall ==
    \A c \in Calls : pc[c] = "done" => timer[c] \in {"fired", "cleared"}

\* a call that ended on a network failure, through the catch block
C7_Witness ==
    \E c \in Calls :
        /\ pc[c] = "done"
        /\ resp[c] = NoResponse
        /\ timer[c] = "cleared"
        /\ outcome[c].name = "NetworkError"

(***************************************************************************)
(* C8.  A typed error thrown by handleError reaches the caller as that     *)
(* same error: class, code, message, status and extra fields unchanged.    *)
(***************************************************************************)
C8_TypedErrorsPropagateUnchanged ==
    \A c \in Calls :
        (raised[c].kind = "error" /\ InstanceOfPixwellError(raised[c])) =>
            pc[c] = "done" /\ outcome[c] = raised[c]

C8_Witness ==
    \E c \in Calls :
        /\ raised[c].kind = "error"
        /\ raised[c].name = "RateLimitError"
        /\ raised[c].retryAfter = Num(30)
        /\ outcome[c] = raised[c]

(***************************************************************************)
(* C9.  Concurrent calls are independent: a step changes the state of one  *)
(* call at most (its timer, abort signal, response, outcome), and once the *)
(* client is constructed no step changes its configuration.                *)
(***************************************************************************)
C9_CallsIndependent ==
    [][ /\ \A c \in ManyCalls : \A d \in ManyCalls \ {c} :
              CallState(c)' # CallState(c) => CallState(d)' = CallState(d)
        /\ clientState = "constructed" => config' = config /\ clientState' = clientState
      ]_vars

\* one call timed out while another, in flight with it, returned a result
C9_Witness ==
    \E c \in Calls : \E d \in Calls \ {c} :
        /\ timer[c] = "fired" /\ pc[c] = "done"
        /\ timer[d] = "cleared" /\ pc[d] = "done" /\ outcome[d].kind = "result"

(***************************************************************************)
(* C10.  While a call is reading a success body or an error body its timer *)
(* is already cleared and its signal not aborted, and neither the timer    *)
(* nor an abort can then act on it: the timeout bounds only the wait for   *)
(* the response.                                                           *)
(***************************************************************************)
C10_TimerClearedBeforeBodyRead ==
    \A c \in Calls :
        pc[c] \in {"reading", "handleError"} =>
            /\ timer[c] = "cleared"
            /\ ~aborted[c]
            /\ ~ENABLED TimerFire(c)
            /\ ~ENABLED FetchAborted(c)

C10_Witness ==
    \E c \in Calls :
        pc[c] = "reading" /\ timer[c] = "cleared" /\ resp[c].status = 200

====
